---------------------------- MODULE Spec2Model ----------------------------
(***************************************************************************)
(* Longshot: scroll-and-stitch full page capture.                          *)
(*                                                                         *)
(* The background service worker (background.js) drives one capture        *)
(* session as a chain of awaits.  Every action below is the continuation   *)
(* that runs between two awaits: it starts when the awaited request        *)
(* answers (its outcome is the action's input) and runs, synchronously,    *)
(* up to the next request the code issues.  A throw runs the catch and     *)
(* finally blocks of startCapture in the same action, as they contain no   *)
(* await.                                                                  *)
(***************************************************************************)
EXTENDS Integers, Sequences, FiniteSets

VARIABLES
    pc,                  \* the await the session is suspended at
    sessionId,           \* startCapture: const sessionId
    preCapture,          \* startCapture: config.preCapture
    activeSessions,      \* const activeSessions = new Map(): its key set
    currentCaptureState, \* let currentCaptureState
    clearTimers,         \* session ids whose 5 s setTimeout has not fired yet
    measured,            \* SCROLL_CAPTURE_INIT has answered with success
    scrollHeight,        \* dims.scrollHeight
    viewportHeight,      \* dims.viewportHeight
    originalScrollY,     \* dims.currentScrollY
    numCaptures,         \* let numCaptures
    i,                   \* the capture loop's counter
    captures,            \* const captures = []
    retries,             \* let retries
    attempts,            \* outcomes of the grabber calls made for offset i
    waits,               \* 1 s backoff waits completed for offset i
    scrollLog,           \* y of every SCROLL_TO the capture loop has sent
    scrollConfirmed,     \* the SCROLL_TO for offset i answered success
    stitchInvoked,       \* STITCH_CAPTURES has been sent
    restoreRequested,    \* the restoring SCROLL_TO has been sent
    downloadRequested,   \* chrome.downloads.download has been called
    writes,              \* every updateCaptureState of this session, in order
    failure,             \* what made the session throw, "none" if nothing
    tabUrl,              \* tab.url of the tab getCurrentTab returned
    pingSent,            \* the PING to the content script has been sent
    landedLog,           \* scrolledToY of every confirmed SCROLL_TO of the loop
    pageShrunk,          \* the page got shorter after it was measured
    lastUpdate,          \* arguments of the latest updateCaptureState call
    recordCleared,       \* the 5 s timer has cleared the record since then
    popupOpen,           \* a popup is listening for CAPTURE_STATUS
    notified,            \* the CAPTURE_STATUS message the open popup got last
    lastDelivered,       \* the latest notifyPopup reached a listener
    statusResponse,      \* answer to the latest GET_CAPTURE_STATUS, while the
                         \* record has not changed since
    offPc,               \* offscreen document: where stitchCapturedViewports is
    images,              \* offscreen document: the images of the request
    overlapHeight,       \* offscreen document: message.overlapHeight
    outputCanvas,        \* offscreen document: the OffscreenCanvas created
    draws,               \* offscreen document: the drawImage calls, in order
    stitchResponse,      \* offscreen document: what sendResponse was given
    sanitizeArgs,        \* value and defaultValue of the latest call of
                         \* sanitizeCanvasDimension made on its own
    sanitizeResult,      \* what that call returned
    configRequests,      \* chrome.storage.sync.get calls of the shortcut
                         \* listener whose callback has not run yet
    awaitingTab,         \* sessions started while another one was running,
                         \* suspended at their getCurrentTab
    spared,              \* a 5 s timer has fired since the session started
                         \* and left another session's record in place
    startResponse        \* what the START_CAPTURE listener answered for
                         \* this session

vars == <<pc, sessionId, preCapture, activeSessions, currentCaptureState,
          clearTimers, measured, scrollHeight, viewportHeight,
          originalScrollY, numCaptures, i, captures, retries, attempts,
          waits, scrollLog, scrollConfirmed, stitchInvoked, restoreRequested,
          downloadRequested, writes, failure, tabUrl, pingSent, landedLog,
          pageShrunk, lastUpdate, recordCleared, popupOpen, notified,
          lastDelivered, statusResponse, offPc, images, overlapHeight,
          outputCanvas, draws, stitchResponse, sanitizeArgs, sanitizeResult,
          configRequests, awaitingTab, spared, startResponse>>

----------------------------------------------------------------------------
(* Program constants *)

OVERLAP_HEIGHT == 75
MAX_CAPTURES == 100
InitialRetries == 3

\* offscreen.js: the largest canvas dimension and the defaults for a width
\* and for a height that are not usable
MaxCanvasDimension == 32767
DefaultWidth == 800
DefaultHeight == 600

(* Bounds of the model *)

\* scrollHeight ranges over the multiples of 25 px up to 25 * MaxScrollUnits
MaxScrollUnits == 8
\* sessions started one after the other
MaxSessions == 2

\* the longest frame list of a STITCH_CAPTURES message
MaxFrames == 3

\* callbacks of the shortcut listener that may be pending at once
MaxPending == 2

\* numbers num/den given to sanitizeCanvasDimension: |num| near 0 and den
MaxNumerator == 4
MaxDenominator == 3

\* by how many pixels a page gets shorter when it shrinks after measuring
PageShrinkage == 10

----------------------------------------------------------------------------
(* Inputs *)

\* window.innerHeight: below, at, one above the overlap, and a small window
ViewportHeights == {50, 75, 76, 100}

\* <<scrollHeight, viewportHeight>> as getPageDimensions reports them.  The
\* last four are desktop pages with a 1000 px viewport: shorter than the
\* viewport (a horizontal scrollbar makes innerHeight exceed scrollHeight),
\* a whole number of steps, not a whole number of steps, and 23 steps.
Geometries ==
    {<<25 * u, vh>> : u \in 1..MaxScrollUnits, vh \in ViewportHeights}
    \cup {<<900, 1000>>, <<2850, 1000>>, <<3000, 1000>>, <<21350, 1000>>}

\* pages of no frame (shorter than the window) and of one to three frames
\* in the small window
SmallGeometries == {g \in Geometries : g[2] = 100 /\ g[1] \in 75..150}

\* img.height of a decoded frame: shorter than the overlap, a desktop
\* viewport, two heights that together pass the canvas limit, and one that
\* passes it alone
ImageHeights == {10, 50, 1000, 20000, 20075, 40000}

\* img.width of a decoded frame: a desktop viewport
ImageWidths == {1280}

Images == [width : ImageWidths, height : ImageHeights]

\* message.captures of a STITCH_CAPTURES message, by the decoded images
CaptureLists == UNION {[1..n -> Images] : n \in 0..MaxFrames}

\* A JavaScript value handed to sanitizeCanvasDimension: undefined, null,
\* NaN, an infinity, the number num/den (den > 0), a string that is not a
\* numeral ("text"), or a string that is the numeral of num/den.
Num(n) == [kind |-> "num", num |-> n, den |-> 1]

Undefined == [kind |-> "undefined", num |-> 0, den |-> 1]
Null == [kind |-> "null", num |-> 0, den |-> 1]
NaN == [kind |-> "nan", num |-> 0, den |-> 1]
Infinity == [kind |-> "inf", num |-> 0, den |-> 1]
MinusInfinity == [kind |-> "-inf", num |-> 0, den |-> 1]
Text == [kind |-> "text", num |-> 0, den |-> 1]

\* Numbers num/den around 0, around 1 and around the canvas limit
Fractions ==
    {[kind |-> "num", num |-> n, den |-> d] :
        n \in (-MaxNumerator..MaxNumerator)
               \cup {MaxCanvasDimension * k + e :
                        k \in 1..MaxDenominator, e \in -2..2},
        d \in 1..MaxDenominator}

\* Values given to sanitizeCanvasDimension: the numbers, their numerals as
\* strings, and the values that are no number
SanitizeInputs ==
    Fractions
    \cup {[v EXCEPT !.kind = "numeral"] : v \in Fractions}
    \cup {Undefined, Null, NaN, Infinity, MinusInfinity, Text}

\* the tallest page in the window one above the overlap, which needs more
\* than MAX_CAPTURES frames, and the page of one frame
TallGeometries ==
    {g \in Geometries :
        \/ g[2] = OVERLAP_HEIGHT + 1 /\ g[1] = 25 * MaxScrollUnits
        \/ g[2] = 100 /\ g[1] = 100}

\* window.scrollY when the capture starts: the top, or scrolled down
ScrollPositions(sh, vh) == {0} \cup {y \in {40} : sh - vh >= y}

\* chrome.tabs.captureVisibleTab: resolves, rejects with a message that
\* includes 'quota', or rejects with any other message
GrabOutcomes == {"ok", "quota", "other"}

Absent == <<>>
Present(n) == <<n>>

null == [sessionId |-> 0, status |-> "null", message |-> "", progress |-> Absent]

\* no response has been given
NoResponse == [captureState |-> [sessionId |-> 0, status |-> "no response",
                                 message |-> "", progress |-> Absent]]

\* no canvas has been created
NoCanvas == [width |-> 0, height |-> 0]

\* sanitizeCanvasDimension has not been called on its own
NoArgs == <<>>
NoResult == <<>>

\* the START_CAPTURE listener has not answered
NoStartResponse == [success |-> FALSE, sessionId |-> 0, error |-> "none yet"]

\* sendResponse of the offscreen document has not been called
NoStitchResponse == [success |-> FALSE, error |-> ""]

----------------------------------------------------------------------------
(* Pure functions of the capture plan *)

MathMin(a, b) == IF a < b THEN a ELSE b

\* Math.ceil(a / b) for a > 0 as JavaScript numbers give it: +Infinity when
\* b = 0, and the quotient rounded towards +Infinity for either sign of b
\* (Math.ceil(-0.4) is -0, which counts as 0).
CeilDiv(a, b) ==
    IF b = 0 THEN [inf |-> TRUE, val |-> 0]
    ELSE IF b > 0 THEN [inf |-> FALSE, val |-> (a + b - 1) \div b]
    ELSE [inf |-> FALSE, val |-> 0 - (a \div (0 - b))]

\* numCaptures before the limit is enforced
RequiredCaptures(sh, vh) ==
    IF sh > vh
    THEN LET q == CeilDiv(sh - vh, vh - OVERLAP_HEIGHT)
         IN  [inf |-> q.inf, val |-> q.val + 1]
    ELSE [inf |-> FALSE, val |-> 1]

EnforceLimits_Unclamped(raw) == IF raw.inf THEN MAX_CAPTURES ELSE raw.val

\* numCaptures = Math.min(numCaptures, MAX_CAPTURES)
EnforceLimits(raw) ==
    IF raw.inf THEN MAX_CAPTURES ELSE MathMin(raw.val, MAX_CAPTURES)

NumCaptures(sh, vh) == EnforceLimits(RequiredCaptures(sh, vh))

\* The content script's scrollToPosition: window.scrollTo(x, y) lands on y
\* clamped to what the page can scroll, and window.scrollY is reported.
ScrolledToY(y, max) ==
    IF y < 0 \/ max < 0 THEN 0 ELSE IF y > max THEN max ELSE y

\* what the page can scroll: as measured, or less once it has shrunk
MaxScroll(sh, vh, shrunk) ==
    IF shrunk THEN sh - vh - PageShrinkage ELSE sh - vh

\* const scrollY = i * (viewportHeight - OVERLAP_HEIGHT)
ScrollY(k, vh) == k * (vh - OVERLAP_HEIGHT)

\* the break of the capture loop: if (scrollY > scrollHeight - viewportHeight)
PastBottom(y, sh, vh) == y > sh - vh

\* Math.round((i / numCaptures) * 100) on IEEE doubles, for 0 <= k < n <= 100.
\* It is the exact quotient rounded half up, except that 23/40 * 100 (and
\* 46/80 * 100) evaluates to 57.49999999999999 and rounds to 57.
Progress(k, n) ==
    IF 40 * k = 23 * n THEN 57 ELSE (200 * k + n) \div (2 * n)

IsLastCapture_Strict(y, vh, sh) == y + vh > sh

\* isLastCapture: scrollY + viewportHeight >= scrollHeight
IsLastCapture(y, vh, sh) == y + vh >= sh

ShouldRetry_AnyError(kind, left) == left > 0

ShouldRetry_NoBudget(kind, left) == kind = "quota"

\* if (captureError.message.includes('quota') && retries > 0)
ShouldRetry(kind, left) == kind = "quota" /\ left > 0

\* A URL is the sequence of its pieces: 'chrome://extensions' is
\* <<"chrome", ":", "//", "extensions">>.  A missing (undefined or empty)
\* tab.url is the empty sequence.
MissingUrl == <<>>

\* url.startsWith(prefix)
StartsWith(url, prefix) ==
    /\ Len(prefix) <= Len(url)
    /\ \A k \in 1..Len(prefix) : url[k] = prefix[k]

restrictedSchemes ==
    {<<"chrome", ":", "//">>, <<"chrome-extension", ":", "//">>,
     <<"brave", ":", "//">>, <<"edge", ":", "//">>, <<"opera", ":", "//">>,
     <<"about", ":">>, <<"view-source", ":">>, <<"file", ":", "//">>}

isCapturableUrl_ExactMatch(url) ==
    IF url = MissingUrl THEN FALSE ELSE url \notin restrictedSchemes

\* isCapturableUrl
isCapturableUrl(url) ==
    IF url = MissingUrl
    THEN FALSE
    ELSE ~\E scheme \in restrictedSchemes : StartsWith(url, scheme)

\* tab.url of the active tab: a web page, a page of each restricted scheme,
\* or none
WebUrl == <<"https", ":", "//", "example.com", "/">>

TabUrls ==
    {WebUrl, MissingUrl,
     <<"chrome", ":", "//", "extensions">>,
     <<"chrome-extension", ":", "//", "abcdef", "/", "popup.html">>,
     <<"brave", ":", "//", "settings">>,
     <<"edge", ":", "//", "settings">>,
     <<"opera", ":", "//", "settings">>,
     <<"about", ":", "blank">>,
     <<"view-source", ":", "https", ":", "//", "example.com", "/">>,
     <<"file", ":", "//", "/", "home", "/", "page.html">>}

\* no tab has been returned yet
NoTab == <<"no tab">>

----------------------------------------------------------------------------
(* The session progress tracker *)

State(sid, status, message, progress) ==
    [sessionId |-> sid, status |-> status, message |-> message,
     progress |-> progress]

\* updateCaptureState, called once for each element of ws, in order: every
\* call overwrites currentCaptureState, so the last one stays
updateCaptureState_Merge(ws) ==
    /\ currentCaptureState' =
           [ws[Len(ws)] EXCEPT !.progress =
               IF @ = Absent /\ currentCaptureState # null
               THEN currentCaptureState.progress ELSE @]
    /\ writes' = writes \o ws
    /\ lastUpdate' = ws[Len(ws)]
    /\ recordCleared' = FALSE
    /\ notified' = IF popupOpen THEN ws[Len(ws)] ELSE notified
    /\ lastDelivered' = popupOpen
    /\ statusResponse' = NoResponse

\* updateCaptureState stores the record and calls notifyPopup, whose
\* sendMessage reaches the popup if one is open and is rejected (and the
\* rejection swallowed) if none is.
updateCaptureState(ws) ==
    /\ currentCaptureState' = ws[Len(ws)]
    /\ writes' = writes \o ws
    /\ lastUpdate' = ws[Len(ws)]
    /\ recordCleared' = FALSE
    /\ notified' = IF popupOpen THEN ws[Len(ws)] ELSE notified
    /\ lastDelivered' = popupOpen
    /\ statusResponse' = NoResponse

Throw_Failed(cause, pre) ==
    /\ updateCaptureState(
           pre \o <<State(sessionId, "failed", "Capture failed", Absent)>>)
    /\ activeSessions' = activeSessions \ {sessionId}
    /\ failure' = cause
    /\ pc' = "done"

Throw_Completed(cause, pre) ==
    /\ updateCaptureState(
           pre \o <<State(sessionId, "completed", "Capture complete!",
                          Present(100))>>)
    /\ activeSessions' = activeSessions \ {sessionId}
    /\ failure' = cause
    /\ pc' = "done"

StartCaptureResponse_ByOutcome(sid) ==
    IF failure = "none"
    THEN [success |-> TRUE, sessionId |-> sid, error |-> ""]
    ELSE [success |-> FALSE, sessionId |-> 0, error |-> "Capture failed"]

\* sendResponse({ success: true, sessionId }) of the START_CAPTURE listener
StartCaptureResponse(sid) ==
    [success |-> TRUE, sessionId |-> sid, error |-> ""]

\* A throw inside startCapture's try: updateCaptureState is called for pre
\* (the calls made before the throw), then the catch block writes 'error'
\* and the finally block removes the session from activeSessions.
Throw(cause, pre) ==
    /\ updateCaptureState(
           pre \o <<State(sessionId, "error", "Capture failed", Absent)>>)
    /\ activeSessions' = activeSessions \ {sessionId}
    /\ failure' = cause
    /\ pc' = "done"

----------------------------------------------------------------------------
(* Init: the service worker has just loaded *)

Init ==
    /\ pc = "idle"
    /\ sessionId = 0
    /\ preCapture = FALSE
    /\ activeSessions = {}
    /\ currentCaptureState = null
    /\ clearTimers = {}
    /\ measured = FALSE
    /\ scrollHeight = 0
    /\ viewportHeight = 0
    /\ originalScrollY = 0
    /\ numCaptures = 0
    /\ i = 0
    /\ captures = <<>>
    /\ retries = 0
    /\ attempts = <<>>
    /\ waits = 0
    /\ scrollLog = <<>>
    /\ scrollConfirmed = FALSE
    /\ stitchInvoked = FALSE
    /\ restoreRequested = FALSE
    /\ downloadRequested = FALSE
    /\ writes = <<>>
    /\ failure = "none"
    /\ tabUrl = NoTab
    /\ pingSent = FALSE
    /\ landedLog = <<>>
    /\ pageShrunk = FALSE
    /\ lastUpdate = null
    /\ recordCleared = FALSE
    /\ popupOpen = FALSE
    /\ notified = null
    /\ lastDelivered = FALSE
    /\ statusResponse = NoResponse
    /\ offPc = "idle"
    /\ images = <<>>
    /\ overlapHeight = 0
    /\ outputCanvas = NoCanvas
    /\ draws = <<>>
    /\ stitchResponse = NoStitchResponse
    /\ sanitizeArgs = NoArgs
    /\ sanitizeResult = NoResult
    /\ configRequests = 0
    /\ awaitingTab = 0
    /\ spared = FALSE
    /\ startResponse = NoStartResponse

Geometry == <<measured, scrollHeight, viewportHeight, originalScrollY,
              numCaptures>>
Loop == <<i, captures, scrollLog, scrollConfirmed, landedLog>>
Grab == <<retries, attempts, waits>>
Output == <<stitchInvoked, restoreRequested, downloadRequested>>
Tab == <<tabUrl, pingSent>>
Tracker == <<currentCaptureState, writes, lastUpdate, recordCleared, notified,
             lastDelivered, statusResponse>>
Offscreen == <<offPc, images, overlapHeight, outputCanvas, draws,
               stitchResponse>>
\* the sanitizer called on its own, and the shortcut listener
Apart == <<sanitizeArgs, sanitizeResult, configRequests, awaitingTab>>
\* what no step of a capture session changes
Elsewhere == <<popupOpen, pageShrunk, Offscreen, Apart>>
\* what only the start and the end of a session, and the timers, change
Aftermath == <<spared, startResponse>>

----------------------------------------------------------------------------
(* startCapture *)

\* startCapture(config) up to its first await: a fresh session id, then
\* await getCurrentTab()
startCapture(cfg) ==
    /\ sessionId + awaitingTab < MaxSessions
    /\ sessionId' = sessionId + 1
    /\ preCapture' = cfg
    /\ pc' = "getTab"
    /\ measured' = FALSE
    /\ scrollHeight' = 0
    /\ viewportHeight' = 0
    /\ originalScrollY' = 0
    /\ numCaptures' = 0
    /\ i' = 0
    /\ captures' = <<>>
    /\ retries' = 0
    /\ attempts' = <<>>
    /\ waits' = 0
    /\ scrollLog' = <<>>
    /\ scrollConfirmed' = FALSE
    /\ stitchInvoked' = FALSE
    /\ restoreRequested' = FALSE
    /\ downloadRequested' = FALSE
    /\ writes' = <<>>
    /\ failure' = "none"
    /\ tabUrl' = NoTab
    /\ pingSent' = FALSE
    /\ landedLog' = <<>>
    /\ spared' = FALSE
    /\ startResponse' = NoStartResponse
    /\ UNCHANGED <<activeSessions, currentCaptureState, clearTimers,
                   lastUpdate, recordCleared, notified, lastDelivered,
                   statusResponse>>

\* A START_CAPTURE message arrives while no session is running, and the
\* listener calls startCapture
StartCapture(cfg) ==
    /\ pc \in {"idle", "done"}
    /\ UNCHANGED Elsewhere
    /\ startCapture(cfg)

\* chrome.tabs.query answers.  found: a tab with an id came back.  With a
\* capturable URL the session is stored and 'started' written; without
\* preCapture scrollAndStitchCapture starts at once: 'preparing', then PING.
TabQueryReturns(found, url) ==
    /\ pc = "getTab"
    /\ UNCHANGED <<Elsewhere, Aftermath>>
    /\ tabUrl' = IF found THEN url ELSE NoTab
    /\ pingSent' = (found /\ isCapturableUrl(url) /\ ~preCapture)
    /\ IF ~found
       THEN Throw("tab", <<>>)
       ELSE IF ~isCapturableUrl(url)
       THEN Throw("url", <<State(sessionId, "error", "Cannot capture this page", Absent)>>)
       ELSE IF preCapture
       THEN /\ activeSessions' = activeSessions \cup {sessionId}
            /\ updateCaptureState(
                   <<State(sessionId, "started", "Starting capture...", Absent),
                     State(sessionId, "stabilizing", "Stabilizing DOM...", Absent)>>)
            /\ pc' = "stabilize"
            /\ UNCHANGED failure
       ELSE /\ activeSessions' = activeSessions \cup {sessionId}
            /\ updateCaptureState(
                   <<State(sessionId, "started", "Starting capture...", Absent),
                     State(sessionId, "preparing", "Preparing page...", Absent)>>)
            /\ pc' = "ping"
            /\ UNCHANGED failure
    /\ UNCHANGED <<sessionId, preCapture, clearTimers, Geometry, Loop, Grab,
                   Output>>

\* stabilizeDOM answers or fails (the failure is only logged) and the 500 ms
\* wait elapses; scrollAndStitchCapture starts: 'preparing', then PING
StabilizeReturns ==
    /\ pc = "stabilize"
    /\ UNCHANGED <<Elsewhere, Aftermath>>
    /\ pingSent' = TRUE
    /\ UNCHANGED tabUrl
    /\ updateCaptureState(
           <<State(sessionId, "preparing", "Preparing page...", Absent)>>)
    /\ pc' = "ping"
    /\ UNCHANGED <<sessionId, preCapture, activeSessions, clearTimers,
                   Geometry, Loop, Grab, Output, failure>>

\* ensureContentScript: the PING answers, or it fails and executeScript is
\* awaited next
PingReturns(ok) ==
    /\ pc = "ping"
    /\ UNCHANGED <<Tab, Elsewhere, Aftermath>>
    /\ IF ok
       THEN /\ updateCaptureState(
                   <<State(sessionId, "capturing", "Getting page dimensions...", Absent)>>)
            /\ pc' = "dims"
       ELSE /\ pc' = "inject"
            /\ UNCHANGED Tracker
    /\ UNCHANGED <<sessionId, preCapture, activeSessions, clearTimers,
                   Geometry, Loop, Grab, Output, failure>>

\* chrome.scripting.executeScript answers (and the 100 ms wait elapses), or
\* fails: 'Cannot inject content script' is thrown
InjectReturns(ok) ==
    /\ pc = "inject"
    /\ UNCHANGED <<Tab, Elsewhere, Aftermath>>
    /\ IF ok
       THEN /\ updateCaptureState(
                   <<State(sessionId, "capturing", "Getting page dimensions...", Absent)>>)
            /\ pc' = "dims"
            /\ UNCHANGED <<activeSessions, failure>>
       ELSE Throw("inject", <<>>)
    /\ UNCHANGED <<sessionId, preCapture, clearTimers, Geometry, Loop, Grab,
                   Output>>

----------------------------------------------------------------------------
(* scrollAndStitchCapture: the capture loop *)

NoCaptures_Never(caps) == FALSE

\* if (captures.length === 0)
NoCaptures(caps) == Len(caps) = 0

\* captures.push({blob, scrollY, viewportHeight, viewportWidth, isLastCapture})
Frame(y, vh, sh) ==
    [scrollY |-> y, viewportHeight |-> vh,
     isLastCapture |-> IsLastCapture(y, vh, sh)]

\* The for statement's test with counter k and the frames caps collected so
\* far, for the geometry sh, vh and the count n.  Inside the loop: the break
\* test, the progress write and the SCROLL_TO request.  Past the loop: the
\* throw on an empty collection, else the 'stitching' write and the first
\* FileReader read.
LoopHead(k, caps, sh, vh, n) ==
    IF k < n /\ ~PastBottom(ScrollY(k, vh), sh, vh)
    THEN /\ updateCaptureState(
                <<State(sessionId, "capturing", "Capturing viewport",
                        Present(Progress(k, n)))>>)
         /\ scrollLog' = Append(scrollLog, ScrollY(k, vh))
         /\ scrollConfirmed' = FALSE
         /\ pc' = "scroll"
         /\ UNCHANGED <<activeSessions, failure>>
    ELSE IF NoCaptures(caps)
    THEN /\ Throw("empty", <<>>)
         /\ UNCHANGED <<scrollLog, scrollConfirmed>>
    ELSE /\ updateCaptureState(
                <<State(sessionId, "stitching", "Stitching captures together...",
                        Present(95))>>)
         /\ pc' = "encode"
         /\ UNCHANGED <<scrollLog, scrollConfirmed, activeSessions, failure>>

\* SCROLL_CAPTURE_INIT answers: the geometry is read, numCaptures computed
\* and limited, and the loop is entered with i = 0.  A rejected request or
\* success: false throws.
DimsReturns(ok, sh, vh, y0) ==
    /\ pc = "dims"
    /\ pageShrunk' = FALSE
    /\ UNCHANGED <<Tab, popupOpen, Offscreen, Apart, Aftermath>>
    /\ IF ok
       THEN /\ measured' = TRUE
            /\ scrollHeight' = sh
            /\ viewportHeight' = vh
            /\ originalScrollY' = y0
            /\ numCaptures' = NumCaptures(sh, vh)
            /\ i' = 0
            /\ captures' = <<>>
            /\ UNCHANGED landedLog
            /\ LoopHead(0, <<>>, sh, vh, NumCaptures(sh, vh))
       ELSE /\ Throw("dims", <<>>)
            /\ UNCHANGED <<Geometry, Loop>>
    /\ UNCHANGED <<sessionId, preCapture, clearTimers, Grab, Output>>

\* SCROLL_TO answers: success starts the 600 ms settle wait; a rejected
\* request or success: false throws
ScrollReturns(ok) ==
    /\ pc = "scroll"
    /\ UNCHANGED <<Tab, Elsewhere, Aftermath>>
    /\ IF ok
       THEN /\ scrollConfirmed' = TRUE
            /\ landedLog' =
                   Append(landedLog,
                          ScrolledToY(scrollLog[Len(scrollLog)],
                                      MaxScroll(scrollHeight, viewportHeight,
                                                pageShrunk)))
            /\ pc' = "settle"
            /\ UNCHANGED <<activeSessions, failure, Tracker>>
       ELSE /\ Throw("scroll", <<>>)
            /\ UNCHANGED <<scrollConfirmed, landedLog>>
    /\ UNCHANGED <<sessionId, preCapture, clearTimers, Geometry, i, captures,
                   scrollLog, Grab, Output>>

\* the settle wait elapses: let retries = 3, and the first captureVisibleTab
SettleElapsed ==
    /\ pc = "settle"
    /\ UNCHANGED <<Tab, Elsewhere, Aftermath>>
    /\ retries' = InitialRetries
    /\ attempts' = <<>>
    /\ waits' = 0
    /\ pc' = "grab"
    /\ UNCHANGED <<sessionId, preCapture, activeSessions, clearTimers,
                   Geometry, Loop, Output, failure, Tracker>>

\* captureVisibleTab answers.  Resolved: break, then fetch(dataUrl).
\* Rejected: retries--, then either the 1 s wait or the rethrow.
GrabReturns(outcome) ==
    /\ pc = "grab"
    /\ UNCHANGED <<Tab, Elsewhere, Aftermath>>
    /\ attempts' = Append(attempts, outcome)
    /\ IF outcome = "ok"
       THEN /\ pc' = "fetch"
            /\ UNCHANGED <<retries, activeSessions, failure, Tracker>>
       ELSE /\ retries' = retries - 1
            /\ IF ShouldRetry(outcome, retries - 1)
               THEN /\ pc' = "backoff"
                    /\ UNCHANGED <<activeSessions, failure, Tracker>>
               ELSE Throw(IF outcome = "quota" THEN "quota" ELSE "grab", <<>>)
    /\ UNCHANGED <<sessionId, preCapture, clearTimers, Geometry, Loop, waits,
                   Output>>

\* the 1 s wait elapses: the while loop calls captureVisibleTab again
BackoffElapsed ==
    /\ pc = "backoff"
    /\ UNCHANGED <<Tab, Elsewhere, Aftermath>>
    /\ waits' = waits + 1
    /\ pc' = "grab"
    /\ UNCHANGED <<sessionId, preCapture, activeSessions, clearTimers,
                   Geometry, Loop, retries, attempts, Output, failure, Tracker>>

\* fetch(dataUrl) and response.blob() answer: the frame is pushed, i++, and
\* the for statement's test runs again
FetchReturns ==
    /\ pc = "fetch"
    /\ UNCHANGED <<Tab, Elsewhere, Aftermath>>
    /\ LET y == ScrollY(i, viewportHeight)
           caps == Append(captures, Frame(y, viewportHeight, scrollHeight))
       IN  /\ captures' = caps
           /\ i' = i + 1
           /\ UNCHANGED landedLog
           /\ LoopHead(i + 1, caps, scrollHeight, viewportHeight, numCaptures)
    /\ UNCHANGED <<sessionId, preCapture, clearTimers, Geometry, Grab, Output>>

----------------------------------------------------------------------------
(* scrollAndStitchCapture past the loop, and the rest of startCapture *)

\* every FileReader read has answered: createOffscreenDocument is awaited
EncodeReturns(ok) ==
    /\ pc = "encode"
    /\ UNCHANGED <<Tab, Elsewhere, Aftermath>>
    /\ IF ok
       THEN /\ pc' = "offscreen"
            /\ UNCHANGED <<activeSessions, failure, Tracker>>
       ELSE Throw("encode", <<>>)
    /\ UNCHANGED <<sessionId, preCapture, clearTimers, Geometry, Loop, Grab,
                   Output>>

\* createOffscreenDocument answers (the document exists, was created and the
\* 300 ms wait elapsed, or 'already exists' was caught): STITCH_CAPTURES is
\* sent.  Any other createDocument failure is rethrown.
OffscreenReturns(ok) ==
    /\ pc = "offscreen"
    /\ UNCHANGED <<Tab, Elsewhere, Aftermath>>
    /\ IF ok
       THEN /\ stitchInvoked' = TRUE
            /\ pc' = "stitch"
            /\ UNCHANGED <<activeSessions, failure, Tracker>>
       ELSE /\ Throw("offscreen", <<>>)
            /\ UNCHANGED stitchInvoked
    /\ UNCHANGED <<sessionId, preCapture, clearTimers, Geometry, Loop, Grab,
                   restoreRequested, downloadRequested>>

\* the offscreen document answers: a png blob URL, or an error response, no
\* response at all, or a rejected send, each of which throws.  On success
\* the restoring SCROLL_TO is sent.
StitchOutcomes == {"png", "error", "undefined", "rejected"}

StitchReturns(outcome) ==
    /\ pc = "stitch"
    /\ UNCHANGED <<Tab, Elsewhere, Aftermath>>
    /\ IF outcome = "png"
       THEN /\ restoreRequested' = TRUE
            /\ pc' = "restore"
            /\ UNCHANGED <<activeSessions, failure, Tracker>>
       ELSE /\ Throw("stitch", <<>>)
            /\ UNCHANGED restoreRequested
    /\ UNCHANGED <<sessionId, preCapture, clearTimers, Geometry, Loop, Grab,
                   stitchInvoked, downloadRequested>>

\* the restoring SCROLL_TO answers or is rejected (only logged):
\* scrollAndStitchCapture returns, startCapture writes 'downloading' and
\* calls chrome.downloads.download
RestoreReturns ==
    /\ pc = "restore"
    /\ UNCHANGED <<Tab, Elsewhere, Aftermath>>
    /\ updateCaptureState(
           <<State(sessionId, "downloading", "Downloading image...", Absent)>>)
    /\ downloadRequested' = TRUE
    /\ pc' = "download"
    /\ UNCHANGED <<sessionId, preCapture, activeSessions, clearTimers,
                   Geometry, Loop, Grab, stitchInvoked, restoreRequested,
                   failure>>

\* chrome.downloads.download answers: 'completed' with progress 100, the
\* 5 s clearing timer is set and the session leaves activeSessions; a
\* rejected download throws
DownloadReturns(ok) ==
    /\ pc = "download"
    /\ UNCHANGED <<Tab, Elsewhere, Aftermath>>
    /\ IF ok
       THEN /\ updateCaptureState(
                   <<State(sessionId, "completed", "Capture complete!",
                           Present(100))>>)
            /\ clearTimers' = clearTimers \cup {sessionId}
            /\ activeSessions' = activeSessions \ {sessionId}
            /\ pc' = "done"
            /\ UNCHANGED failure
       ELSE /\ Throw("download", <<>>)
            /\ UNCHANGED clearTimers
    /\ UNCHANGED <<sessionId, preCapture, Geometry, Loop, Grab, Output>>

\* startCapture's promise resolves with the session id (it catches every
\* error itself and always returns), and the START_CAPTURE listener's then
\* handler answers the message.
StartCaptureResolves ==
    /\ pc = "done"
    /\ startResponse = NoStartResponse
    /\ startResponse' = StartCaptureResponse(sessionId)
    /\ UNCHANGED <<pc, sessionId, preCapture, activeSessions, clearTimers,
                   Geometry, Loop, Grab, Output, failure, Tab, Tracker,
                   Elsewhere, spared>>

RecordOf_AnySession(sid) == currentCaptureState # null

\* the timer's test: currentCaptureState && currentCaptureState.sessionId
\* === sessionId
RecordOf(sid) ==
    /\ currentCaptureState # null
    /\ currentCaptureState.sessionId = sid

\* the 5 s timer of session sid fires
ClearTimerFires(sid) ==
    /\ sid \in clearTimers
    /\ UNCHANGED <<Tab, Elsewhere, startResponse>>
    /\ spared' =
           IF currentCaptureState # null /\ currentCaptureState.sessionId # sid
           THEN TRUE
           ELSE spared
    /\ clearTimers' = clearTimers \ {sid}
    /\ currentCaptureState' =
           IF RecordOf(sid) THEN null ELSE currentCaptureState
    /\ recordCleared' = IF RecordOf(sid) THEN TRUE ELSE recordCleared
    /\ statusResponse' = IF RecordOf(sid) THEN NoResponse ELSE statusResponse
    /\ UNCHANGED <<pc, sessionId, preCapture, activeSessions, Geometry, Loop,
                   Grab, Output, writes, failure, lastUpdate, notified,
                   lastDelivered>>

----------------------------------------------------------------------------
(* offscreen.js: the stitcher *)

\* Number(value), for a value that is neither undefined nor null
ToNumber(value) ==
    IF value.kind = "text"
    THEN NaN
    ELSE IF value.kind = "numeral"
    THEN [value EXCEPT !.kind = "num"]
    ELSE value

MathFloor_Ceiling(v) == -((-v.num) \div v.den)

\* Math.floor
MathFloor(v) == v.num \div v.den

sanitizeCanvasDimension_NoCeiling(value, defaultValue) ==
    IF value.kind \in {"undefined", "null"}
       \/ ToNumber(value).kind \in {"nan", "inf", "-inf"}
    THEN defaultValue
    ELSE IF MathFloor(ToNumber(value)) < 1
    THEN defaultValue
    ELSE MathFloor(ToNumber(value))

\* sanitizeCanvasDimension(value, defaultValue)
sanitizeCanvasDimension(value, defaultValue) ==
    IF value.kind \in {"undefined", "null"}
    THEN defaultValue
    ELSE LET numValue == ToNumber(value)
         IN  IF numValue.kind \in {"nan", "inf", "-inf"}
             THEN defaultValue
             ELSE LET floored == MathFloor(numValue)
                      intValue == IF floored < 1 THEN defaultValue
                                                 ELSE floored
                  IN  IF intValue > MaxCanvasDimension
                      THEN MaxCanvasDimension
                      ELSE intValue

\* sanitizeCanvasDimension is called on its own, with one of the two
\* defaults the stitcher passes
SanitizeCalled(value, defaultValue) ==
    /\ sanitizeArgs' = <<value, defaultValue>>
    /\ sanitizeResult' = <<sanitizeCanvasDimension(value, defaultValue)>>
    /\ UNCHANGED <<pc, sessionId, preCapture, activeSessions, clearTimers,
                   Geometry, Loop, Grab, Output, failure, Tab, Tracker,
                   popupOpen, pageShrunk, Offscreen, configRequests,
                   awaitingTab, Aftermath>>

\* let totalHeight = images[0].img.height; then, for i = 1 .. n - 1,
\* totalHeight += images[i].img.height - overlapHeight
RECURSIVE TotalHeight(_, _, _)
TotalHeight(imgs, overlap, n) ==
    IF n = 1
    THEN imgs[1].height
    ELSE TotalHeight(imgs, overlap, n - 1) + (imgs[n].height - overlap)

\* const drawHeight, for the frame at position k (the code's i + 1)
DrawHeight(imgs, overlap, k) ==
    IF k = 1 THEN imgs[k].height ELSE imgs[k].height - overlap

SourceY_Overlap(overlap, k) == overlap

\* const sourceY
SourceY(overlap, k) == IF k = 1 THEN 0 ELSE overlap

\* currentY when the frame at position k is drawn
RECURSIVE CurrentY(_, _, _)
CurrentY(imgs, overlap, k) ==
    IF k = 1
    THEN 0
    ELSE CurrentY(imgs, overlap, k - 1) + DrawHeight(imgs, overlap, k - 1)

\* ctx.drawImage(img, 0, sy, w, sh, 0, dy, w, dh) under globalAlpha,
\* in percent
DrawImage(k, alpha, sy, w, sh, dy, dh) ==
    [frame |-> k, alpha |-> alpha, sy |-> sy, sh |-> sh, dy |-> dy,
     dh |-> dh, w |-> w]

\* the drawImage calls for the frame at position k: for a later frame the
\* half-transparent one, then the main one
FrameDraws(imgs, overlap, k) ==
    LET canvasWidth == imgs[1].width
        drawHeight == DrawHeight(imgs, overlap, k)
        sourceY == SourceY(overlap, k)
        currentY == CurrentY(imgs, overlap, k)
        skip == IF k > 1 THEN overlap ELSE 0
    IN  (IF k > 1
         THEN <<DrawImage(k, 50, sourceY, canvasWidth, overlap,
                          currentY, overlap)>>
         ELSE <<>>)
        \o <<DrawImage(k, 100, sourceY, canvasWidth, drawHeight - skip,
                       currentY + skip, drawHeight - skip)>>

\* the drawing loop over the first n frames
RECURSIVE DrawLoop(_, _, _)
DrawLoop(imgs, overlap, n) ==
    IF n = 0
    THEN <<>>
    ELSE DrawLoop(imgs, overlap, n - 1) \o FrameDraws(imgs, overlap, n)

\* the catch block of stitchCapturedViewports and of the listener:
\* sendResponse({error})
StitchError(msg) ==
    [success |-> FALSE, error |-> "Failed to stitch captures: " \o msg]

\* A STITCH_CAPTURES message arrives: an empty list throws at once,
\* otherwise the images are loaded one after the other.
StitchMessage(caps, overlap) ==
    /\ offPc \in {"idle", "responded"}
    /\ images' = caps
    /\ overlapHeight' = overlap
    /\ outputCanvas' = NoCanvas
    /\ draws' = <<>>
    /\ IF Len(caps) = 0
       THEN /\ stitchResponse' = StitchError("No captures to stitch")
            /\ offPc' = "responded"
       ELSE /\ stitchResponse' = NoStitchResponse
            /\ offPc' = "loading"
    /\ UNCHANGED <<pc, sessionId, preCapture, activeSessions, clearTimers,
                   Geometry, Loop, Grab, Output, failure, Tab, Tracker,
                   popupOpen, pageShrunk,
                   Apart, Aftermath>>

\* The last image has loaded, or one has failed to.  With all loaded the
\* canvas is created with the sanitized dimensions; without a 2d context
\* the stitcher throws, with one every frame is drawn and convertToBlob is
\* awaited.
ImagesLoaded(loaded, ctx) ==
    /\ offPc = "loading"
    /\ IF ~loaded
       THEN /\ stitchResponse' = StitchError("Failed to load image")
            /\ offPc' = "responded"
            /\ UNCHANGED <<outputCanvas, draws>>
       ELSE /\ outputCanvas' =
                   [width |-> sanitizeCanvasDimension(Num(images[1].width),
                                                      DefaultWidth),
                    height |-> sanitizeCanvasDimension(
                                   Num(TotalHeight(images, overlapHeight,
                                                   Len(images))),
                                   DefaultHeight)]
            /\ IF ~ctx
               THEN /\ stitchResponse' =
                           StitchError("Failed to get canvas context")
                    /\ offPc' = "responded"
                    /\ UNCHANGED draws
               ELSE /\ draws' = DrawLoop(images, overlapHeight, Len(images))
                    /\ offPc' = "encoding"
                    /\ UNCHANGED stitchResponse
    /\ UNCHANGED <<pc, sessionId, preCapture, activeSessions, clearTimers,
                   Geometry, Loop, Grab, Output, failure, Tab, Tracker,
                   popupOpen, pageShrunk, images, overlapHeight,
                   Apart, Aftermath>>

\* convertToBlob resolves and the blob URL is sent back, or it rejects
BlobConverted(ok) ==
    /\ offPc = "encoding"
    /\ stitchResponse' =
           IF ok
           THEN [success |-> TRUE, error |-> ""]
           ELSE StitchError("convertToBlob failed")
    /\ offPc' = "responded"
    /\ UNCHANGED <<pc, sessionId, preCapture, activeSessions, clearTimers,
                   Geometry, Loop, Grab, Output, failure, Tab, Tracker,
                   popupOpen, pageShrunk, images, overlapHeight,
                   outputCanvas, draws, Apart, Aftermath>>

----------------------------------------------------------------------------
(* The keyboard shortcut *)

\* the shortcut listener's test for a capture in progress
CaptureInProgress ==
    /\ currentCaptureState # null
    /\ currentCaptureState.status \notin {"completed", "error"}

\* The 'capture-page' command arrives: ignored when the record shows a
\* capture in progress, otherwise chrome.storage.sync.get is called with
\* the callback that starts the capture.
CommandReceived ==
    /\ configRequests < MaxPending
    /\ configRequests' =
           IF CaptureInProgress THEN configRequests ELSE configRequests + 1
    /\ UNCHANGED <<pc, sessionId, preCapture, activeSessions, clearTimers,
                   Geometry, Loop, Grab, Output, failure, Tab, Tracker,
                   popupOpen, pageShrunk, Offscreen, sanitizeArgs,
                   sanitizeResult, awaitingTab, Aftermath>>

\* The callback of chrome.storage.sync.get runs and calls startCapture,
\* whatever has happened since the command.  When another session is
\* running, the new one is followed up to its getCurrentTab only.
ConfigReturns(cfg) ==
    /\ configRequests > 0
    /\ configRequests' = configRequests - 1
    /\ IF pc \in {"idle", "done"}
       THEN /\ startCapture(cfg)
            /\ UNCHANGED awaitingTab
       ELSE /\ sessionId + awaitingTab < MaxSessions
            /\ awaitingTab' = awaitingTab + 1
            /\ UNCHANGED <<pc, sessionId, preCapture, activeSessions,
                           clearTimers, Geometry, Loop, Grab, Output,
                           failure, Tab, Tracker, Aftermath>>
    /\ UNCHANGED <<popupOpen, pageShrunk, Offscreen, sanitizeArgs,
                   sanitizeResult>>

----------------------------------------------------------------------------
(* The popup and the page, while a session runs *)

\* The popup opens and sends GET_CAPTURE_STATUS; the listener answers with
\* the stored record.  From now on the popup listens for CAPTURE_STATUS.
GetCaptureStatus ==
    /\ statusResponse' = [captureState |-> currentCaptureState]
    /\ popupOpen' = TRUE
    /\ UNCHANGED <<pc, sessionId, preCapture, activeSessions, clearTimers,
                   Geometry, Loop, Grab, Output, failure, Tab,
                   currentCaptureState, writes, lastUpdate, recordCleared,
                   notified, lastDelivered, pageShrunk, Offscreen,
                   Apart, Aftermath>>

\* The popup closes: sendMessage of later notifications is rejected, and
\* the rejection is swallowed by notifyPopup.
PopupCloses ==
    /\ popupOpen
    /\ popupOpen' = FALSE
    /\ notified' = null
    /\ statusResponse' = NoResponse
    /\ UNCHANGED <<pc, sessionId, preCapture, activeSessions, clearTimers,
                   Geometry, Loop, Grab, Output, failure, Tab,
                   currentCaptureState, writes, lastUpdate, recordCleared,
                   lastDelivered, pageShrunk, Offscreen,
                   Apart, Aftermath>>

\* The page gets shorter after getPageDimensions measured it, while the
\* loop is scrolling and grabbing.
PageShrinks ==
    /\ pc \in {"scroll", "settle", "grab", "backoff", "fetch"}
    /\ ~pageShrunk
    /\ pageShrunk' = TRUE
    /\ UNCHANGED <<pc, sessionId, preCapture, activeSessions, clearTimers,
                   Geometry, Loop, Grab, Output, failure, Tab, Tracker,
                   popupOpen, Offscreen,
                   Apart, Aftermath>>

----------------------------------------------------------------------------

Next ==
    \/ \E cfg \in BOOLEAN : StartCapture(cfg)
    \/ \E found \in BOOLEAN, url \in TabUrls : TabQueryReturns(found, url)
    \/ StabilizeReturns
    \/ \E ok \in BOOLEAN : PingReturns(ok)
    \/ \E ok \in BOOLEAN : InjectReturns(ok)
    \/ \E ok \in BOOLEAN, g \in Geometries :
           \E y0 \in ScrollPositions(g[1], g[2]) : DimsReturns(ok, g[1], g[2], y0)
    \/ \E ok \in BOOLEAN : ScrollReturns(ok)
    \/ SettleElapsed
    \/ \E outcome \in GrabOutcomes : GrabReturns(outcome)
    \/ BackoffElapsed
    \/ FetchReturns
    \/ \E ok \in BOOLEAN : EncodeReturns(ok)
    \/ \E ok \in BOOLEAN : OffscreenReturns(ok)
    \/ \E outcome \in StitchOutcomes : StitchReturns(outcome)
    \/ RestoreReturns
    \/ \E ok \in BOOLEAN : DownloadReturns(ok)
    \/ \E sid \in clearTimers : ClearTimerFires(sid)

Spec == Init /\ [][Next]_vars

\* A session on a small page, with the popup opening, asking and closing at
\* any moment, the page free to shrink during the loop, the offscreen
\* document receiving a STITCH_CAPTURES message without captures, and the
\* START_CAPTURE message answered when the session has ended
SmallPagesNext ==
    \/ \E cfg \in BOOLEAN : StartCapture(cfg)
    \/ \E found \in BOOLEAN, url \in {WebUrl, MissingUrl} :
           TabQueryReturns(found, url)
    \/ StabilizeReturns
    \/ \E ok \in BOOLEAN : PingReturns(ok)
    \/ \E ok \in BOOLEAN : InjectReturns(ok)
    \/ \E ok \in BOOLEAN, g \in SmallGeometries :
           DimsReturns(ok, g[1], g[2], 0)
    \/ \E ok \in BOOLEAN : ScrollReturns(ok)
    \/ SettleElapsed
    \/ \E outcome \in GrabOutcomes : GrabReturns(outcome)
    \/ BackoffElapsed
    \/ FetchReturns
    \/ \E ok \in BOOLEAN : EncodeReturns(ok)
    \/ \E ok \in BOOLEAN : OffscreenReturns(ok)
    \/ \E outcome \in StitchOutcomes : StitchReturns(outcome)
    \/ RestoreReturns
    \/ \E ok \in BOOLEAN : DownloadReturns(ok)
    \/ \E sid \in clearTimers : ClearTimerFires(sid)
    \/ GetCaptureStatus
    \/ PopupCloses
    \/ PageShrinks
    \/ StitchMessage(<<>>, OVERLAP_HEIGHT)
    \/ StartCaptureResolves

SmallPagesSpec == Init /\ [][SmallPagesNext]_vars

\* The offscreen document alone, answering STITCH_CAPTURES messages
StitchNext ==
    \/ \E caps \in CaptureLists : StitchMessage(caps, OVERLAP_HEIGHT)
    \/ \E loaded, ctx \in BOOLEAN : ImagesLoaded(loaded, ctx)
    \/ \E ok \in BOOLEAN : BlobConverted(ok)

StitchSpec == Init /\ [][StitchNext]_vars

\* Sessions on a small page, started by the keyboard shortcut only
ShortcutNext ==
    \/ CommandReceived
    \/ \E cfg \in BOOLEAN : ConfigReturns(cfg)
    \/ \E found \in BOOLEAN, url \in {WebUrl, MissingUrl} :
           TabQueryReturns(found, url)
    \/ StabilizeReturns
    \/ \E ok \in BOOLEAN : PingReturns(ok)
    \/ \E ok \in BOOLEAN : InjectReturns(ok)
    \/ \E ok \in BOOLEAN, g \in SmallGeometries :
           DimsReturns(ok, g[1], g[2], 0)
    \/ \E ok \in BOOLEAN : ScrollReturns(ok)
    \/ SettleElapsed
    \/ \E outcome \in GrabOutcomes : GrabReturns(outcome)
    \/ BackoffElapsed
    \/ FetchReturns
    \/ \E ok \in BOOLEAN : EncodeReturns(ok)
    \/ \E ok \in BOOLEAN : OffscreenReturns(ok)
    \/ \E outcome \in StitchOutcomes : StitchReturns(outcome)
    \/ RestoreReturns
    \/ \E ok \in BOOLEAN : DownloadReturns(ok)
    \/ \E sid \in clearTimers : ClearTimerFires(sid)

ShortcutSpec == Init /\ [][ShortcutNext]_vars

\* what answers a request of the session: the tab query, the content
\* script (the controller), the timers of the waits, the grabber, fetch and
\* FileReader, the offscreen document (the stitcher) and the download sink
Answers ==
    \/ \E found \in BOOLEAN, url \in {WebUrl, MissingUrl} :
           TabQueryReturns(found, url)
    \/ StabilizeReturns
    \/ \E ok \in BOOLEAN : PingReturns(ok)
    \/ \E ok \in BOOLEAN : InjectReturns(ok)
    \/ \E ok \in BOOLEAN, g \in TallGeometries :
           DimsReturns(ok, g[1], g[2], 0)
    \/ \E ok \in BOOLEAN : ScrollReturns(ok)
    \/ SettleElapsed
    \/ \E outcome \in GrabOutcomes : GrabReturns(outcome)
    \/ BackoffElapsed
    \/ FetchReturns
    \/ \E ok \in BOOLEAN : EncodeReturns(ok)
    \/ \E ok \in BOOLEAN : OffscreenReturns(ok)
    \/ \E outcome \in StitchOutcomes : StitchReturns(outcome)
    \/ RestoreReturns
    \/ \E ok \in BOOLEAN : DownloadReturns(ok)

\* Sessions on the tallest page and on the page of one frame, every request
\* of which is answered in the end
AnsweredNext ==
    \/ \E cfg \in BOOLEAN : StartCapture(cfg)
    \/ Answers
    \/ \E sid \in clearTimers : ClearTimerFires(sid)

AnsweredSpec == Init /\ [][AnsweredNext]_vars /\ WF_vars(Answers)

\* sanitizeCanvasDimension alone, called with any value
SanitizeNext ==
    \E value \in SanitizeInputs, defaultValue \in {DefaultWidth, DefaultHeight} :
        SanitizeCalled(value, defaultValue)

SanitizeSpec == Init /\ [][SanitizeNext]_vars

----------------------------------------------------------------------------
(* Properties of the capture plan and of the collection *)

\* the capture loop has been left and nothing it awaited has failed
LoopFinished ==
    \/ pc \in {"encode", "offscreen", "stitch", "restore", "download"}
    \/ /\ pc = "done"
       /\ measured
       /\ failure \in {"none", "empty", "encode", "offscreen", "stitch",
                       "download"}

QuotaQuotaOk == <<"quota", "quota", "ok">>
QuotaThrice == <<"quota", "quota", "quota">>

\* C1: for every geometry with scrollHeight <= viewportHeight (here with a
\* viewport above the overlap) one capture is planned, the loop sends at
\* most the one SCROLL_TO to offset 0, and once the loop has been left
\* exactly one frame, at offset 0, has been captured.
C1_SingleFrameAtZero ==
    (measured /\ scrollHeight <= viewportHeight
              /\ viewportHeight > OVERLAP_HEIGHT)
    => /\ numCaptures = 1
       /\ Len(scrollLog) <= 1
       /\ LoopFinished
          => /\ scrollLog = <<0>>
             /\ Len(captures) = 1
             /\ captures[1].scrollY = 0

\* C2: for scrollHeight > viewportHeight > overlap and a count below
\* MAX_CAPTURES, the k-th offset scrolled to is (k-1) * (viewportHeight -
\* overlap) capped at scrollHeight - viewportHeight, and once the loop has
\* been left all numCaptures offsets have been visited and the last frame's
\* bottom edge is scrollHeight (3000, 1000, 75: 0, 925, 1850, 2000).
C2_LastOffsetCapped ==
    (measured /\ scrollHeight > viewportHeight
              /\ viewportHeight > OVERLAP_HEIGHT
              /\ RequiredCaptures(scrollHeight, viewportHeight).val < MAX_CAPTURES)
    => /\ \A k \in 1..Len(scrollLog) :
              scrollLog[k] = MathMin(ScrollY(k - 1, viewportHeight),
                                     scrollHeight - viewportHeight)
       /\ LoopFinished
          => /\ Len(scrollLog) = numCaptures
             /\ Len(captures) = numCaptures
             /\ captures[Len(captures)].scrollY + viewportHeight = scrollHeight

\* C3: with viewportHeight > overlap, the offsets the loop scrolls to start
\* at 0, are strictly increasing and are at most MAX_CAPTURES, and no more
\* frames are grabbed than offsets were scrolled to.
C3_AtMostMaxCaptures ==
    (measured /\ viewportHeight > OVERLAP_HEIGHT)
    => /\ Len(scrollLog) <= MAX_CAPTURES
       /\ Len(captures) <= Len(scrollLog)
       /\ scrollLog # <<>> => scrollLog[1] = 0
       /\ \A k \in 1..(Len(scrollLog) - 1) : scrollLog[k] < scrollLog[k + 1]

\* C3 witness: a page that needs more than MAX_CAPTURES frames has had
\* exactly MAX_CAPTURES offsets scrolled to and captured
C3_Witness ==
    /\ measured
    /\ viewportHeight > OVERLAP_HEIGHT
    /\ RequiredCaptures(scrollHeight, viewportHeight).val > MAX_CAPTURES
    /\ Len(scrollLog) = MAX_CAPTURES
    /\ Len(captures) = MAX_CAPTURES
    /\ LoopFinished

\* C4: once a viewportHeight <= overlap has been measured the session is
\* over, in the error phase, and no SCROLL_TO and no captureVisibleTab was
\* issued for it.
C4_InvalidGeometryAborts ==
    (measured /\ viewportHeight <= OVERLAP_HEIGHT)
    => /\ pc = "done"
       /\ currentCaptureState.status = "error"
       /\ scrollLog = <<>>
       /\ attempts = <<>>
       /\ captures = <<>>

\* C5: the grabber is called at most 3 times for an offset; each call after
\* the first follows one more completed backoff wait; and after quota,
\* quota, success (3 calls, 2 waits) the frame of that offset is the last
\* one recorded, the counter has advanced and the session has not failed
\* on the grab.
C5_RetryThenRecord ==
    /\ Len(attempts) <= InitialRetries
    /\ pc = "grab" => waits = Len(attempts)
    /\ pc = "backoff" => waits = Len(attempts) - 1
    /\ attempts = QuotaQuotaOk
       => /\ waits = 2
          /\ pc # "fetch"
             => /\ Len(captures) = i
                /\ i >= 1
                /\ captures[i].scrollY = ScrollY(i - 1, viewportHeight)
                /\ failure \notin {"quota", "grab", "empty"}

\* C5 witness: after quota, quota, success the frame is recorded and the
\* loop has sent the SCROLL_TO of the next offset
C5_Witness ==
    /\ attempts = QuotaQuotaOk
    /\ waits = 2
    /\ pc = "scroll"
    /\ Len(captures) = i
    /\ i >= 1

\* C6: after three quota failures at offset i the session is over in the
\* error phase: only the frames of the i earlier offsets are recorded, the
\* SCROLL_TO of offset i was the last one, and no stitch, no restoring
\* scroll and no download was requested.
C6_QuotaExhaustedAborts ==
    attempts = QuotaThrice
    => /\ pc = "done"
       /\ failure = "quota"
       /\ currentCaptureState.status = "error"
       /\ currentCaptureState.sessionId = sessionId
       /\ Len(captures) = i
       /\ Len(scrollLog) = i + 1
       /\ ~stitchInvoked
       /\ ~restoreRequested
       /\ ~downloadRequested
       /\ retries = 0

\* C6 witness: the third offset exhausts the retries after two frames
C6_Witness ==
    /\ attempts = QuotaThrice
    /\ pc = "done"
    /\ i = 2
    /\ Len(captures) = 2

\* C7: a grabber failure other than quota is the last grabber call of the
\* session: the session is over in the error phase, and no backoff wait
\* followed it.
C7_OtherFailureAborts ==
    \A k \in 1..Len(attempts) :
        attempts[k] = "other"
        => /\ k = Len(attempts)
           /\ pc = "done"
           /\ failure = "grab"
           /\ currentCaptureState.status = "error"
           /\ waits = k - 1

\* C7 witness: the first call fails with another error while two retries
\* remain
C7_Witness ==
    /\ attempts = <<"other">>
    /\ retries = InitialRetries - 1
    /\ pc = "done"

\* C8: the SCROLL_TO of an offset is sent only after the frames of all
\* earlier offsets are recorded, a grab is in progress only after the
\* SCROLL_TO of its own offset was confirmed, and the recorded frames are
\* strictly increasing in scrollY.
C8_SequentialIncreasing ==
    /\ Len(scrollLog) <= Len(captures) + 1
    /\ pc \in {"grab", "backoff", "fetch"}
       => /\ scrollConfirmed
          /\ Len(scrollLog) = i + 1
          /\ scrollLog[i + 1] = ScrollY(i, viewportHeight)
    /\ \A j, k \in 1..Len(captures) :
           j < k => captures[j].scrollY < captures[k].scrollY

\* C9: a recorded frame is flagged last exactly when its recorded scrollY
\* plus its recorded height reaches scrollHeight.
C9_IsLastIffBottomReached ==
    \A k \in 1..Len(captures) :
        captures[k].isLastCapture
        <=> captures[k].scrollY + captures[k].viewportHeight >= scrollHeight

\* C9 witness: a first frame that is not last and a final frame whose bottom
\* edge is exactly scrollHeight
C9_Witness ==
    /\ Len(captures) >= 2
    /\ ~captures[1].isLastCapture
    /\ captures[Len(captures)].isLastCapture
    /\ captures[Len(captures)].scrollY + viewportHeight = scrollHeight

\* C10: the progress values written to the tracker in one session, leaving
\* out the writes without progress, never decrease.
C10_ProgressNonDecreasing ==
    \A j, k \in 1..Len(writes) :
        (j < k /\ writes[j].progress # Absent /\ writes[k].progress # Absent)
        => writes[j].progress[1] <= writes[k].progress[1]

----------------------------------------------------------------------------
(* Properties of the session record and of the failure paths *)

\* the session has ended and its record is still the stored one
TerminalRecordStored ==
    /\ pc = "done"
    /\ currentCaptureState # null
    /\ currentCaptureState.sessionId = sessionId
    /\ currentCaptureState.status \in {"completed", "error"}

\* C12: once a session has written a terminal phase, on the failure path as
\* on the success path, the stored record of that session has a clearing
\* timer pending, so that it is cleared after the delay.
C12_TerminalRecordIsCleared ==
    TerminalRecordStored => sessionId \in clearTimers

SpecPhases ==
    {"preparing", "capturing", "stitching", "downloading", "completed",
     "error"}

CodePhases == SpecPhases \cup {"started", "stabilizing"}

\* C13 as stated: the phase stored in the record, and every phase written
\* (and so sent to observers), is one of preparing, capturing, stitching,
\* downloading, completed, error.
C13_PhaseInSpecSet ==
    /\ currentCaptureState # null => currentCaptureState.status \in SpecPhases
    /\ \A k \in 1..Len(writes) : writes[k].status \in SpecPhases

\* C13 amended: the phase stored in the record, and every phase written, is
\* one of started, stabilizing, preparing, capturing, stitching,
\* downloading, completed, error.
C13_PhaseInCodeSet ==
    /\ currentCaptureState # null => currentCaptureState.status \in CodePhases
    /\ \A k \in 1..Len(writes) : writes[k].status \in CodePhases

\* C13 witness: 'stabilizing' is the stored phase while stabilizeDOM is
\* awaited, after 'started' was written
C13_Witness ==
    /\ pc = "stabilize"
    /\ currentCaptureState.status = "stabilizing"
    /\ writes[1].status = "started"

CollectionOrStitchFailures ==
    {"dims", "scroll", "grab", "quota", "empty", "encode", "offscreen",
     "stitch"}

\* C14: when a step of the session has failed, the session has ended, its
\* last tracker write has phase error with a message, it has written no
\* completed, and after a failure in collection or stitching no download
\* was requested.
C14_FailureEndsInError ==
    failure # "none"
    => /\ pc = "done"
       /\ writes # <<>>
       /\ writes[Len(writes)].status = "error"
       /\ writes[Len(writes)].message # ""
       /\ writes[Len(writes)].sessionId = sessionId
       /\ \A k \in 1..Len(writes) : writes[k].status # "completed"
       /\ failure \in CollectionOrStitchFailures => ~downloadRequested

\* C14 witness: stitching failed with frames collected
C14_Witness ==
    /\ failure = "stitch"
    /\ captures # <<>>
    /\ stitchInvoked
    /\ currentCaptureState.status = "error"

\* C15: a loop that is left with no frame recorded ends the session with
\* the empty-collection error, and the stitcher is invoked only with a
\* non-empty frame list; the stitcher, given an empty frame list, answers
\* with an error and has created no canvas and drawn nothing.
C15_EmptyCollectionFails ==
    /\ (LoopFinished /\ captures = <<>>)
       => /\ pc = "done"
          /\ failure = "empty"
          /\ currentCaptureState.status = "error"
          /\ ~stitchInvoked
    /\ stitchInvoked => captures # <<>>
    /\ (offPc # "idle" /\ images = <<>>)
       => /\ offPc = "responded"
          /\ ~stitchResponse.success
          /\ stitchResponse.error # ""
          /\ outputCanvas = NoCanvas
          /\ draws = <<>>

\* C15 witness: the loop was left at its first offset with nothing
\* recorded, and the stitcher has answered a message without captures
C15_Witness ==
    /\ failure = "empty"
    /\ measured
    /\ captures = <<>>
    /\ scrollLog = <<>>
    /\ offPc = "responded"
    /\ images = <<>>
    /\ stitchResponse = StitchError("No captures to stitch")

\* the URL is missing or begins with one of the restricted schemes
RestrictedOrMissing(url) ==
    \/ url = MissingUrl
    \/ \E scheme \in restrictedSchemes :
           /\ Len(url) >= Len(scheme)
           /\ SubSeq(url, 1, Len(scheme)) = scheme

\* C18: once the tab's URL is known to be restricted or missing, the session
\* has ended in phase error and no ping, scroll, grab, stitch or download
\* was requested.
C18_RestrictedUrlRejected ==
    (tabUrl # NoTab /\ RestrictedOrMissing(tabUrl))
    => /\ pc = "done"
       /\ failure = "url"
       /\ currentCaptureState.status = "error"
       /\ \A k \in 1..Len(writes) : writes[k].status = "error"
       /\ ~pingSent
       /\ ~measured
       /\ scrollLog = <<>>
       /\ attempts = <<>>
       /\ ~stitchInvoked
       /\ ~restoreRequested
       /\ ~downloadRequested

\* C18 witness: a page of a restricted scheme, longer than the scheme itself
C18_Witness ==
    /\ tabUrl = <<"chrome", ":", "//", "extensions">>
    /\ pc = "done"
    /\ failure = "url"

----------------------------------------------------------------------------
(* Properties of the tracker's record and of the recorded positions *)

\* what the tracker holds after its latest update, or nothing once the
\* delayed clearing has removed it
LatestRecord == IF recordCleared THEN null ELSE lastUpdate

\* C11: the stored record is exactly the sessionId, phase, message and
\* progress of the most recent update, GET_CAPTURE_STATUS answers with
\* exactly that record, and this is so too when the latest notification
\* found no observer.
C11_QueryReturnsLatestUpdate ==
    /\ currentCaptureState = LatestRecord
    /\ statusResponse # NoResponse
       => statusResponse.captureState = LatestRecord
    /\ popupOpen /\ notified # null /\ lastDelivered => notified = lastUpdate

\* C11 witness: 'downloading' was written without progress after
\* 'stitching' with 95, no observer was there to be notified, and a query
\* made afterwards answers 'downloading' without progress while the
\* session goes on
C11_Witness ==
    /\ pc = "download"
    /\ failure = "none"
    /\ ~lastDelivered
    /\ statusResponse # NoResponse
    /\ statusResponse.captureState.status = "downloading"
    /\ statusResponse.captureState.progress = Absent
    /\ \E k \in 1..Len(writes) : writes[k].progress = Present(95)

\* C19: the scrollY recorded in each frame is the position the controller
\* reported for that frame's scroll.
C19_RecordsReportedPosition ==
    \A k \in 1..Len(captures) : captures[k].scrollY = landedLog[k]

----------------------------------------------------------------------------
(* Properties of the stitcher *)

\* the canvas has been created for the frames of the current message
CanvasCreated == outputCanvas # NoCanvas

\* height(frame0) + sum over i > 0 of (height(frame_i) - overlapHeight)
RECURSIVE SumOfHeights(_, _)
SumOfHeights(imgs, n) ==
    IF n = 0 THEN 0 ELSE SumOfHeights(imgs, n - 1) + imgs[n].height

ComputedHeight ==
    SumOfHeights(images, Len(images)) - (Len(images) - 1) * overlapHeight

AtMost(n, ceiling) == IF n > ceiling THEN ceiling ELSE n

ThreeDesktopFrames ==
    /\ Len(images) = 3
    /\ \A k \in 1..3 : images[k].height = 1000

\* C16 as stated: for every non-empty frame list the canvas height is the
\* computed height clamped to at most 32767.
C16_CanvasHeightIsClampedSum ==
    CanvasCreated => outputCanvas.height = AtMost(ComputedHeight, 32767)

\* C16 amended: when the computed height is at least 1 the canvas height is
\* the computed height clamped to at most 32767, and otherwise it is the
\* default 600; three frames of height 1000 give 2850, and a computed
\* height of 40000 gives 32767 and the stitcher goes on to encode.
C16_CanvasHeightIsClampedSumOrDefault ==
    CanvasCreated
    => /\ ComputedHeight >= 1
          => outputCanvas.height = AtMost(ComputedHeight, 32767)
       /\ ComputedHeight < 1 => outputCanvas.height = 600
       /\ ThreeDesktopFrames => outputCanvas.height = 2850
       /\ ComputedHeight = 40000 => outputCanvas.height = 32767
       /\ (ComputedHeight = 40000 /\ offPc = "responded" /\ draws # <<>>)
          => stitchResponse \in {[success |-> TRUE, error |-> ""],
                                 StitchError("convertToBlob failed")}

\* C16 witness: two frames with a computed height of 40000 were stitched
\* into a canvas of height 32767 and the image was sent back
C16_Witness ==
    /\ Len(images) = 2
    /\ ComputedHeight = 40000
    /\ outputCanvas.height = 32767
    /\ offPc = "responded"
    /\ stitchResponse.success

\* C17: a single frame is drawn by exactly one drawImage, opaque, from
\* source row 0 to canvas row 0 with its full height, and the canvas has
\* the frame's width and height when they are within 32767.
C17_SingleFrameDrawnAsIs ==
    (Len(images) = 1 /\ offPc \in {"encoding", "responded"} /\ CanvasCreated
     /\ stitchResponse # StitchError("Failed to get canvas context"))
    => /\ draws = <<[frame |-> 1, alpha |-> 100, sy |-> 0,
                     sh |-> images[1].height, dy |-> 0,
                     dh |-> images[1].height, w |-> images[1].width]>>
       /\ images[1].width <= 32767
          => outputCanvas.width = images[1].width
       /\ images[1].height <= 32767
          => outputCanvas.height = images[1].height

\* C17 witness: one desktop frame was stitched and sent back
C17_Witness ==
    /\ Len(images) = 1
    /\ images[1].height = 1000
    /\ Len(draws) = 1
    /\ outputCanvas = [width |-> 1280, height |-> 1000]
    /\ offPc = "responded"
    /\ stitchResponse.success

\* the drawImage calls made for the frame at position k
DrawsOfFrame(k) == {d \in {draws[n] : n \in 1..Len(draws)} : d.frame = k}

\* C20: once the frames are drawn, each later frame has its source rows
\* [0, overlap) drawn at 50% opacity onto the canvas rows of the bottom
\* overlap rows of the frame before it, and its source rows from overlap to
\* its last row drawn opaquely from the next canvas row on.
C20_SeamBlendedRestOpaque ==
    draws # <<>>
    => \A k \in 2..Len(images) :
          LET seam == CurrentY(images, overlapHeight, k) - overlapHeight
          IN  /\ \E d \in DrawsOfFrame(k) :
                    /\ d.alpha = 50
                    /\ d.sy = 0
                    /\ d.sh = overlapHeight
                    /\ d.dy = seam
                    /\ d.dh = overlapHeight
              /\ \E d \in DrawsOfFrame(k) :
                    /\ d.alpha = 100
                    /\ d.sy = overlapHeight
                    /\ d.sh = images[k].height - overlapHeight
                    /\ d.dy = seam + overlapHeight
                    /\ d.dh = images[k].height - overlapHeight

\* frames as a session at device pixel ratio 1 sends them: all of the
\* viewport's height, taller than the overlap, the frame at position k taken
\* at offset ScrollY(k - 1, viewportHeight)
FramesOfOneViewport ==
    /\ images # <<>>
    /\ images[1].height > overlapHeight
    /\ \A k \in 1..Len(images) : images[k].height = images[1].height

\* C21: once such frames are drawn, every opaque drawImage puts source row
\* r of the frame at position k on canvas row offset_k + r: its first
\* source row sy lands on canvas row dy = offset_k + sy, and it copies rows
\* one to one.
C21_OpaqueRowsShowSurfaceRows ==
    (FramesOfOneViewport /\ draws # <<>> /\ overlapHeight = OVERLAP_HEIGHT)
    => \A n \in 1..Len(draws) :
          draws[n].alpha = 100
          => /\ draws[n].dh = draws[n].sh
             /\ ScrollY(draws[n].frame - 1, images[1].height) + draws[n].sy
                = draws[n].dy

----------------------------------------------------------------------------
(* Properties of sanitizeCanvasDimension *)

\* the value is a number or the numeral of one
IsNumber(v) == v.kind \in {"num", "numeral"}

\* C22: for every input the result is an integer in 1..32767: the default
\* (800 for a width, 600 for a height) when the input is undefined, null,
\* not numeric, not finite or below 1, 32767 when the input is above 32767,
\* and floor(input) otherwise.
C22_SanitizedDimensionInRange ==
    sanitizeResult # NoResult
    => LET v == sanitizeArgs[1]
           default == sanitizeArgs[2]
           r == sanitizeResult[1]
       IN  /\ r \in 1..32767
           /\ default \in {800, 600}
           /\ (~IsNumber(v) \/ v.num < v.den) => r = default
           /\ (IsNumber(v) /\ v.num > 32767 * v.den) => r = 32767
           /\ (IsNumber(v) /\ v.num >= v.den /\ v.num <= 32767 * v.den)
              => /\ r * v.den <= v.num
                 /\ v.num < (r + 1) * v.den

\* C22 witness: the fraction 3/2, given with the height default, was
\* floored to 1
C22_Witness ==
    /\ sanitizeArgs = <<[kind |-> "num", num |-> 3, den |-> 2], 600>>
    /\ sanitizeResult = <<1>>

----------------------------------------------------------------------------
(* Properties of sessions started by the keyboard shortcut *)

\* sessions that have started and not reached completed or error
SessionsUnderWay ==
    (IF pc \in {"idle", "done"} THEN 0 ELSE 1) + awaitingTab

\* C23: with the shortcut as the only way to start, at most one session is
\* between its start and its terminal phase at any time.
C23_OneShortcutSessionAtATime == SessionsUnderWay <= 1

----------------------------------------------------------------------------
(* Properties of the delayed clearing, of the START_CAPTURE response and of
   the restored scroll position *)

\* the session's own 5 s timer has fired
OwnTimerFired ==
    /\ pc = "done"
    /\ failure = "none"
    /\ sessionId \notin clearTimers

\* C24: from a session's first write until its own timer fires, the stored
\* record is that session's latest write and carries its session id,
\* whatever timers of earlier sessions have fired meanwhile.
C24_ClearSparesOtherSession ==
    (writes # <<>> /\ ~OwnTimerFired)
    => /\ currentCaptureState = writes[Len(writes)]
       /\ currentCaptureState.sessionId = sessionId

\* C24 witness: the timer of an earlier session has fired after this
\* session wrote the record, and the record is still this session's
C24_Witness ==
    /\ spared
    /\ sessionId > 1
    /\ writes # <<>>
    /\ currentCaptureState.sessionId = sessionId
    /\ clearTimers = {}

\* C25: the answer to START_CAPTURE has success = false and an error when
\* the session ended in the error phase, and success = true only when it
\* reached completed.
C25_ResponseReportsOutcome ==
    startResponse # NoStartResponse
    => /\ failure # "none"
          => ~startResponse.success /\ startResponse.error # ""
       /\ startResponse.success
          => \E k \in 1..Len(writes) : writes[k].status = "completed"

\* C26: a session that has sent a SCROLL_TO to a capture offset has sent
\* the restoring SCROLL_TO by the time it has ended, on the failure path as
\* on the success path.
C26_ScrollRestoredBeforeEnd ==
    (pc = "done" /\ scrollLog # <<>>) => restoreRequested

----------------------------------------------------------------------------
(* Termination and the number of requests *)

\* a session has started and not ended
Running == pc \notin {"idle", "done"}

\* the session has written completed or error last and has left the
\* registry
Ended ==
    /\ pc = "done"
    /\ writes # <<>>
    /\ writes[Len(writes)].status \in {"completed", "error"}
    /\ writes[Len(writes)].sessionId = sessionId
    /\ sessionId \notin activeSessions

\* SCROLL_TO requests sent to the controller by the session
ScrollRequests == Len(scrollLog) + (IF restoreRequested THEN 1 ELSE 0)

\* C27 as stated, its finite part: a session sends at most 100 scroll
\* requests.
C27_AtMost100ScrollRequests == ScrollRequests <= 100

\* C27 amended: with every request answered in the end, a running session
\* ends in completed or error and has left the registry, after at most 100
\* scroll requests to capture offsets and one restoring scroll request,
\* and at most 3 grabber invocations for each offset scrolled to.
C27_SessionEndsWithinLimits ==
    /\ [](/\ Len(scrollLog) <= 100
          /\ ScrollRequests <= 101
          /\ Len(attempts) <= 3
          /\ attempts # <<>> => scrollLog # <<>>
          /\ pc = "done" => Ended)
    /\ Running ~> Ended

\* C27 witness: a session of 100 scroll requests to capture offsets has
\* sent the restoring request and has ended in completed
C27_Witness ==
    /\ Len(scrollLog) = 100
    /\ Len(captures) = 100
    /\ restoreRequested
    /\ Ended
    /\ failure = "none"

=============================================================================
